---- MODULE Spec2Model ----
(***************************************************************************)
(* King and rook against king: the move chooser of ajedrez_mejorado.py.   *)
(*                                                                         *)
(* The file holds several programs.  The model follows                    *)
(*   P1, lines 1-313: Black has king and rook and is played by            *)
(*       get_ai_move, which scans for a mate and then deepens;            *)
(*   P4, lines 912-1237: the search functions of P1 once more, under a    *)
(*       main that starts with the black rook on a8;                      *)
(*   P3, lines 603-910: White has king and rook, Black is played by       *)
(*       get_ai_move, which only deepens;                                 *)
(*   the ChessEndgameSolver of lines 316-601, White with king and rook    *)
(*       played by find_best_move.                                        *)
(* The rules engine (python-chess) is modelled for the material the       *)
(* programs set up: two kings and at most one rook.                       *)
(*                                                                         *)
(* Boards carry their history: the half-move clock and the stack of the   *)
(* moves played, from which the repetitions of a position are counted.     *)
(***************************************************************************)
EXTENDS Integers, Sequences, FiniteSets, TLC

\* ------------------------------------------------------------------ chess
\* chess.WHITE and chess.BLACK are the booleans True and False.
WHITE == TRUE
BLACK == FALSE

\* A square that holds nothing (python's None for a missing rook or move).
NoSquare == -1
NoMove == [from_square |-> NoSquare, to_square |-> NoSquare]

SQUARES == 0 .. 63
A8 == 56
B8 == 57
C8 == 58
D8 == 59
E8 == 60
F8 == 61
G8 == 62
H8 == 63

Abs(x) == IF x < 0 THEN -x ELSE x
Max2(x, y) == IF x >= y THEN x ELSE y
Min2(x, y) == IF x <= y THEN x ELSE y

square_file(s) == s % 8
square_rank(s) == s \div 8
square(f, r) == r * 8 + f

\* chess.square_distance: the number of king steps between two squares.
square_distance(a, b) ==
    Max2(Abs(square_file(a) - square_file(b)), Abs(square_rank(a) - square_rank(b)))

Move(f, t) == [from_square |-> f, to_square |-> t]

\* A board: the kings, the rook (NoSquare once captured) and its colour, the
\* side to move, Black's castling right with its rook (which then stands on
\* a8 or h8, where the programs put it), the two move counters, and the stack of (move, state before it) that push fills and pop
\* empties.  PieceState is what push saves and pop restores.
PieceState(b) == [wk |-> b.wk, bk |-> b.bk, rk |-> b.rk, rc |-> b.rc,
                  turn |-> b.turn, castle |-> b.castle,
                  halfmove_clock |-> b.halfmove_clock,
                  fullmove_number |-> b.fullmove_number]

king(b, color) == IF color THEN b.wk ELSE b.bk

HasRook(b, color) == b.rk # NoSquare /\ b.rc = color

Occupied(b) == {b.wk, b.bk} \cup (IF b.rk # NoSquare THEN {b.rk} ELSE {})

OwnSquares(b, color) ==
    {king(b, color)} \cup (IF HasRook(b, color) THEN {b.rk} ELSE {})

\* The squares strictly between two squares of one rank or file.
Between(a, c) ==
    IF square_rank(a) = square_rank(c)
    THEN {s \in SQUARES : /\ square_rank(s) = square_rank(a)
                          /\ Min2(a, c) < s /\ s < Max2(a, c)}
    ELSE {s \in SQUARES : /\ square_file(s) = square_file(a)
                          /\ Min2(a, c) < s /\ s < Max2(a, c)}

\* A rook on r attacks s when they share a rank or file with nothing of occ
\* between them.
RookAttacks(r, s, occ) ==
    /\ r # s
    /\ square_file(r) = square_file(s) \/ square_rank(r) = square_rank(s)
    /\ Between(r, s) \cap occ = {}

\* Board.is_attacked_by, with the occupancy given.
AttackedBy(b, color, s, occ) ==
    \/ square_distance(king(b, color), s) = 1
    \/ HasRook(b, color) /\ RookAttacks(b.rk, s, occ)

is_attacked_by(b, color, s) == AttackedBy(b, color, s, Occupied(b))

is_check(b) == is_attacked_by(b, ~b.turn, king(b, b.turn))

\* The squares the king of the side to move may go to: next to it, not on a
\* piece of its own, and not attacked once the king has left its square (a
\* rook's ray passes through the square the king leaves).
KingTargets(b) ==
    LET k == king(b, b.turn)
        occ == Occupied(b) \ {k}
    IN {t \in SQUARES : /\ square_distance(k, t) = 1
                        /\ t \notin OwnSquares(b, b.turn)
                        /\ ~AttackedBy(b, ~b.turn, t, occ \ {t})}

\* The squares the rook of the side to move may go to.  The enemy has no
\* piece but its king, so no rook move exposes the own king.
RookTargets(b) ==
    IF HasRook(b, b.turn)
    THEN {t \in SQUARES : /\ RookAttacks(b.rk, t, Occupied(b))
                          /\ t \notin OwnSquares(b, b.turn)
                          /\ t # king(b, ~b.turn)}
    ELSE {}

\* Black may castle: the right is kept, the king stands on e8 and the rook
\* on h8 or a8, the squares between them are empty, and White attacks none
\* of the squares the king stands on, crosses and reaches (e8, f8, g8 with
\* the h8 rook; e8, d8, c8 with the a8 rook).
CanCastle(b) ==
    /\ b.turn = BLACK /\ b.castle
    /\ b.bk = E8 /\ b.rc = BLACK
    /\ \/ /\ b.rk = H8
          /\ b.wk \notin {F8, G8}
          /\ square_distance(b.wk, E8) > 1
          /\ square_distance(b.wk, F8) > 1
          /\ square_distance(b.wk, G8) > 1
       \/ /\ b.rk = A8
          /\ b.wk \notin {B8, C8, D8}
          /\ square_distance(b.wk, E8) > 1
          /\ square_distance(b.wk, D8) > 1
          /\ square_distance(b.wk, C8) > 1

\* The castling move: the king goes two squares towards the rook.
CastlingMove(b) == IF b.rk = H8 THEN Move(E8, G8) ELSE Move(E8, C8)

\* The elements of a set of squares, the highest first (chess.scan_reversed).
RECURSIVE scan_reversed(_)
scan_reversed(S) ==
    IF S = {} THEN <<>>
    ELSE LET m == CHOOSE x \in S : \A y \in S : y <= x
         IN <<m>> \o scan_reversed(S \ {m})

\* A sequence given as a function, with its elements computed once.
Strict(s, n) == SubSeq(s, 1, n)

MovesFrom(f, targets) ==
    LET ts == scan_reversed(targets)
    IN Strict([i \in 1 .. Len(ts) |-> Move(f, ts[i])], Len(ts))

\* list(board.legal_moves): the pieces from the highest square down, each
\* with its targets from the highest down, then the castling move.
legal_moves(b) ==
    LET k == king(b, b.turn)
        km == MovesFrom(k, KingTargets(b))
        rm == IF HasRook(b, b.turn) THEN MovesFrom(b.rk, RookTargets(b)) ELSE <<>>
        cm == IF CanCastle(b) THEN <<CastlingMove(b)>> ELSE <<>>
    IN (IF HasRook(b, b.turn) /\ b.rk > k THEN rm \o km ELSE km \o rm) \o cm

HasLegalMove(b) == KingTargets(b) # {} \/ RookTargets(b) # {} \/ CanCastle(b)

is_checkmate(b) == is_check(b) /\ ~HasLegalMove(b)
is_stalemate(b) == ~is_check(b) /\ ~HasLegalMove(b)
is_insufficient_material(b) == b.rk = NoSquare
\* The 75-move rule ends the game, the 50-move rule lets a player claim the
\* draw: now, or with a move that brings the clock to 100 half-moves.
is_seventyfive_moves(b) == b.halfmove_clock >= 150 /\ HasLegalMove(b)

\* Board.clean_castling_rights: the right counts while king and rook stand
\* on e8 and on h8 or a8.
clean_castling_rights(st) ==
    st.castle /\ st.bk = E8 /\ st.rk \in {A8, H8} /\ st.rc = BLACK

\* Board._transposition_key: the placement, the side to move and the
\* castling rights; the counters are no part of it.
transposition_key(st) ==
    [wk |-> st.wk, bk |-> st.bk, rk |-> st.rk, rc |-> st.rc, turn |-> st.turn,
     castle |-> clean_castling_rights(st)]

\* Board.is_irreversible, asked of the position the move is played in: the
\* move captures, or it ends a castling right (it moves the black king, or
\* leaves or reaches the rook's square).
is_irreversible(st, m) ==
    \/ m.to_square \in OwnSquares(st, ~st.turn)
    \/ /\ clean_castling_rights(st)
       /\ \/ st.rk \in {m.from_square, m.to_square}
          \/ st.turn = BLACK /\ m.from_square = st.bk

\* The positions the repetition counts look back at: the moves are taken
\* back from the last one until an irreversible move has been taken back; the
\* position before that move is not looked at.
Lookback(b) ==
    LET n == Len(b.stack)
        irr == {i \in 1 .. n : is_irreversible(b.stack[i].state, b.stack[i].move)}
        first == IF irr = {} THEN 1
                 ELSE 1 + CHOOSE i \in irr : \A j \in irr : j <= i
    IN first .. n

\* How often the key stands among the positions looked back at and the
\* position on the board (the Counter of can_claim_threefold_repetition).
transpositions(b, key) ==
    Cardinality({i \in Lookback(b) : transposition_key(b.stack[i].state) = key})
    + (IF transposition_key(b) = key THEN 1 ELSE 0)

\* Board.is_repetition(count): the position on the board stands for the
\* count-th time; the library gives up when fewer than count - 1 moves are on
\* the stack.
is_repetition(b, count) ==
    /\ Len(b.stack) >= count - 1
    /\ transpositions(b, transposition_key(b)) >= count

is_fivefold_repetition(b) == is_repetition(b, 5)

is_game_over(b) ==
    \/ is_checkmate(b)
    \/ is_insufficient_material(b)
    \/ ~HasLegalMove(b)
    \/ is_seventyfive_moves(b)
    \/ is_fivefold_repetition(b)

\* Board.push: the state before the move goes on the stack, the piece moves
\* (castling moves the rook to f8 or d8 too), a rook standing on the target
\* is captured, a move from or to the rook's square or of the black king ends
\* the castling right, the half-move clock counts the moves since the last capture, the
\* move number goes up after Black's move, and the turn passes.
push(b, m) ==
    LET isK == m.from_square = king(b, b.turn)
        castling == isK /\ b.turn = BLACK /\ m \in {Move(E8, G8), Move(E8, C8)}
        captures == b.rk = m.to_square /\ b.rc # b.turn
    IN [wk |-> IF isK /\ b.turn = WHITE THEN m.to_square ELSE b.wk,
        bk |-> IF isK /\ b.turn = BLACK THEN m.to_square ELSE b.bk,
        rk |-> IF castling THEN (IF m.to_square = G8 THEN F8 ELSE D8)
               ELSE IF captures THEN NoSquare
               ELSE IF ~isK THEN m.to_square ELSE b.rk,
        rc |-> b.rc,
        turn |-> ~b.turn,
        castle |-> /\ b.castle
                   /\ b.rk \notin {m.from_square, m.to_square}
                   /\ ~(isK /\ b.turn = BLACK),
        halfmove_clock |-> IF captures THEN 0 ELSE b.halfmove_clock + 1,
        fullmove_number |-> IF b.turn = BLACK THEN b.fullmove_number + 1
                            ELSE b.fullmove_number,
        stack |-> Append(b.stack, [move |-> m, state |-> PieceState(b)])]

\* Board.pop: the state saved by the last push comes back.
pop(b) ==
    LET top == b.stack[Len(b.stack)]
    IN top.state @@ [stack |-> SubSeq(b.stack, 1, Len(b.stack) - 1)]

is_fifty_moves(b) == b.halfmove_clock >= 100 /\ HasLegalMove(b)
can_claim_fifty_moves(b) ==
    \/ is_fifty_moves(b)
    \/ /\ b.halfmove_clock >= 99
       /\ \E i \in 1 .. Len(legal_moves(b)) :
             LET after == push(b, legal_moves(b)[i])
             IN after.halfmove_clock > 0 /\ is_fifty_moves(after)

\* Board.can_claim_threefold_repetition: the position stands for the third
\* time, or a legal move leads to a position that has stood twice.
can_claim_threefold_repetition(b) ==
    /\ b.stack # <<>>
    /\ \/ transpositions(b, transposition_key(b)) >= 3
       \/ \E i \in 1 .. Len(legal_moves(b)) :
             transpositions(b, transposition_key(push(b, legal_moves(b)[i]))) >= 2

can_claim_draw(b) ==
    \/ can_claim_fifty_moves(b)
    \/ can_claim_threefold_repetition(b)

\* Board.fen(): the placement, the side to move, the castling rights that can
\* still be used, and the two counters.
fen(b) == [PieceState(b) EXCEPT !.castle = clean_castling_rights(b)]

\* Board.is_capture(move) as the library computes it on the board it is asked
\* about: the move's from- or to-square holds a piece of the side NOT to move.
is_capture(b, m) ==
    {m.from_square, m.to_square} \cap OwnSquares(b, ~b.turn) # {}

\* Board.is_castling(move) on the board it is asked about: a king of any
\* colour stands on the from-square and the move spans more than one file or
\* ends on a rook of the side to move.
is_castling(b, m) ==
    /\ m.from_square \in {b.wk, b.bk}
    /\ \/ Abs(square_file(m.from_square) - square_file(m.to_square)) > 1
       \/ HasRook(b, b.turn) /\ b.rk = m.to_square

\* ------------------------------------------------- scores (lines 90-162)
\* The mate score of evaluate_board and evaluate_move.
MATE == 10000
\* float('inf') and float('-inf'): beyond every score.
PosInf == 1000000
NegInf == -1000000

\* python's `not x` for a square or None: true of None and of square 0 (a1).
Falsy(x) == x = NoSquare \/ x = 0

\* The square of the first rook of the colour in chess.SQUARES order.
FindRook(b, color) == IF HasRook(b, color) THEN b.rk ELSE NoSquare

\* evaluate_board, lines 110-138: the weighted terms, from Black's side.
Heuristic(b) ==
    LET white_king == b.wk
        black_king == b.bk
        black_rook == b.rk
        dist_rook == square_distance(white_king, black_rook)
        dist_kings == square_distance(white_king, black_king)
        check == IF is_check(b) THEN (IF b.turn = BLACK THEN 50 ELSE -30) ELSE 0
        edge_dist == Min2(Min2(square_file(white_king), 7 - square_file(white_king)),
                          Min2(square_rank(white_king), 7 - square_rank(white_king)))
        aligned == \/ square_file(white_king) = square_file(black_rook)
                   \/ square_rank(white_king) = square_rank(black_rook)
        opposition ==
            \/ /\ Abs(square_file(white_king) - square_file(black_king)) = 2
               /\ square_rank(white_king) = square_rank(black_king)
            \/ /\ Abs(square_rank(white_king) - square_rank(black_king)) = 2
               /\ square_file(white_king) = square_file(black_king)
    IN check
       + (4 - edge_dist) * 15
       + (IF aligned THEN 20 + (IF dist_rook > 1 THEN 10 ELSE 0) ELSE 0)
       + (IF dist_kings <= 1 THEN -30 ELSE 0)
       + (IF opposition THEN 25 ELSE 0)

\* A faulty evaluate_board: the mate score has the sign of the side to move.
evaluate_board_SignOfMover(b) ==
    IF is_checkmate(b) THEN (IF b.turn = BLACK THEN MATE ELSE -MATE)
    ELSE IF is_stalemate(b) THEN 0
    ELSE IF Falsy(FindRook(b, BLACK)) THEN 0
    ELSE IF b.turn = BLACK THEN Heuristic(b) ELSE -Heuristic(b)

\* evaluate_board of the first program (lines 90-138).
evaluate_board(b) ==
    IF is_checkmate(b) THEN (IF b.turn = WHITE THEN MATE ELSE -MATE)
    ELSE IF is_stalemate(b) THEN 0
    ELSE IF Falsy(FindRook(b, BLACK)) THEN 0
    ELSE IF b.turn = BLACK THEN Heuristic(b) ELSE -Heuristic(b)

\* The body of evaluate_move between its push and its pop (lines 144-159), on
\* the board with the move applied.  The source's scores are multiples of
\* one half (15 - center_distance * 3 with center_distance in 0.5 .. 3.5);
\* the model counts in halves, so every score here is twice the source's.
ProbeScore(after, m) ==
    LET base == IF is_checkmate(after) THEN MATE
                ELSE IF is_check(after) THEN 50
                ELSE IF is_capture(after, m) THEN 30
                ELSE 0
        castle == IF is_castling(after, m) THEN 40 ELSE 0
        center_distance2 == Max2(Abs(7 - 2 * square_file(m.to_square)),
                                 Abs(7 - 2 * square_rank(m.to_square)))
        king_bonus2 == IF after.turn = BLACK /\ m.to_square \in {after.wk, after.bk}
                       THEN 30 - center_distance2 * 3
                       ELSE 0
    IN 2 * (base + castle) + king_bonus2

\* evaluate_move(board, move), in halves.
evaluate_move(b, m) == ProbeScore(push(b, m), m)

\* evaluate_board of P3 (lines 686-748): White has the rook.
STALEMATE_PENALTY == -500
evaluate_board_P3(b) ==
    IF is_checkmate(b) THEN (IF b.turn = BLACK THEN MATE ELSE -MATE)
    ELSE IF is_stalemate(b) THEN STALEMATE_PENALTY
    ELSE IF Falsy(FindRook(b, WHITE)) THEN 0
    ELSE LET white_king == b.wk
             white_rook == b.rk
             black_king == b.bk
             bk_file == square_file(black_king)
             bk_rank == square_rank(black_king)
             wr_file == square_file(white_rook)
             wr_rank == square_rank(white_rook)
             distance_rook == Max2(Abs(bk_file - wr_file), Abs(bk_rank - wr_rank))
             wk_file == square_file(white_king)
             wk_rank == square_rank(white_king)
             distance_kings == Max2(Abs(bk_file - wk_file), Abs(bk_rank - wk_rank))
             edge_distance == Min2(Min2(black_king % 8, 7 - (black_king % 8)),
                                   Min2(black_king \div 8, 7 - (black_king \div 8)))
             rook_alignment == IF bk_file = wr_file \/ bk_rank = wr_rank
                               THEN (IF distance_rook > 1 THEN 5 ELSE 2)
                               ELSE 0
             opposition ==
                 IF distance_kings = 1 THEN -50
                 ELSE IF \/ Abs(bk_file - wk_file) = 2 /\ bk_rank = wk_rank
                         \/ Abs(bk_rank - wk_rank) = 2 /\ bk_file = wk_file
                 THEN 20
                 ELSE 0
             check_bonus == IF is_check(b) THEN 10 ELSE 0
             evaluation == 100 - edge_distance * 10 + rook_alignment + opposition
                           + check_bonus - distance_kings * 2
         IN IF b.turn = WHITE THEN evaluation ELSE -evaluation

\* The body of P3's evaluate_move (lines 793-808), in halves like ProbeScore.
ProbeScore_P3(after, m) ==
    LET base == IF is_checkmate(after) THEN MATE
                ELSE IF is_check(after) THEN 50
                ELSE IF is_capture(after, m) THEN 30
                ELSE 0
        center_distance2 == Max2(Abs(7 - 2 * square_file(m.to_square)),
                                 Abs(7 - 2 * square_rank(m.to_square)))
        king_bonus2 == IF after.turn = WHITE /\ m.to_square \in {after.wk, after.bk}
                       THEN 20 - center_distance2
                       ELSE 0
    IN 2 * base + king_bonus2

evaluate_move_P3(b, m) == ProbeScore_P3(push(b, m), m)

\* ChessEndgameSolver.evaluate_board (lines 371-405), math.inf being PosInf.
\* The centrality term (3.5 - |file - 3.5|) + (3.5 - |rank - 3.5|) is the
\* whole number min(file, 7 - file) + min(rank, 7 - rank).
evaluate_board_S(b) ==
    IF is_checkmate(b) THEN (IF b.turn = BLACK THEN PosInf ELSE NegInf)
    ELSE IF is_stalemate(b) \/ is_insufficient_material(b) \/ can_claim_draw(b) THEN 0
    ELSE IF Falsy(FindRook(b, WHITE)) THEN NegInf
    ELSE LET white_king == b.wk
             white_rook == b.rk
             black_king == b.bk
             rook_safety == square_distance(white_rook, black_king)
             king_proximity == 14 - square_distance(white_king, black_king)
             file == square_file(white_rook)
             rank == square_rank(white_rook)
             centrality == Min2(file, 7 - file) + Min2(rank, 7 - rank)
         IN rook_safety * 5
            + king_proximity * 3
            + centrality * 2
            + (IF \/ square_file(white_king) = square_file(black_king)
                  \/ square_rank(white_king) = square_rank(black_king)
               THEN 10 ELSE 0)
            + (IF is_check(b) THEN 15 ELSE 0)

\* Programs 1 and 4 have the same search functions: lines 1006-1132 are the
\* text of lines 90-219 with three names and some spacing changed.
SameText(p) == p \in {"P1", "P4"}

\* The program a board belongs to decides the evaluator, the move scores and
\* the colour get_ai_move maximizes for (lines 214 and 818).
Evaluate(prog, b) ==
    IF SameText(prog) THEN evaluate_board(b)
    ELSE IF prog = "P3" THEN evaluate_board_P3(b)
    ELSE evaluate_board_S(b)
Probe(prog, after, m) ==
    IF SameText(prog) THEN ProbeScore(after, m) ELSE ProbeScore_P3(after, m)
MaximizingColor(prog) == IF SameText(prog) THEN BLACK ELSE WHITE

\* A faulty minimax: the moves are left in the order of generation.
SortByKey_Unsorted(moves, keys, reverse) == moves

\* list.sort(key=..., reverse=...): stable, also when reversed.
SortByKey(moves, keys, reverse) ==
    LET n == Len(moves)
        Before(j, i) == \/ IF reverse THEN keys[j] > keys[i] ELSE keys[j] < keys[i]
                        \/ keys[j] = keys[i] /\ j < i
        rank == Strict([i \in 1 .. n |-> Cardinality({j \in 1 .. n : Before(j, i)}) + 1], n)
    IN Strict([p \in 1 .. n |-> moves[CHOOSE i \in 1 .. n : rank[i] = p]], n)

\* ------------------------------------------- minimax (lines 164-198)
\* A faulty comparison: a move as good as the best so far replaces it.
Improves_OrEqual(maximizing_player, eval, best) ==
    IF maximizing_player THEN eval >= best ELSE eval =< best

\* A move improves on the best so far only strictly (lines 179, 192).
Improves(maximizing_player, eval, best) ==
    IF maximizing_player THEN eval > best ELSE eval < best

\* Lines 182 and 195: the maximizer raises alpha, the minimizer lowers beta.
NewAlpha(maximizing_player, alpha, eval) ==
    IF maximizing_player THEN Max2(alpha, eval) ELSE alpha
\* A faulty update: both branches lower beta.
NewBeta_BothBranches(maximizing_player, beta, eval) == Min2(beta, eval)
NewBeta(maximizing_player, beta, eval) ==
    IF maximizing_player THEN beta ELSE Min2(beta, eval)

\* A faulty test: the comparison is the other way round.
Cutoff_Reversed(alpha, beta) == alpha <= beta
\* Lines 183 and 196: the remaining siblings are skipped.
Cutoff(alpha, beta) == beta <= alpha

\* An activation of minimax: its arguments, its locals, the place it is at,
\* and the board it was called on.
NewFrame(b, depth, alpha, beta, maximizing_player) ==
    [depth |-> depth, alpha |-> alpha, beta |-> beta,
     maximizing_player |-> maximizing_player,
     legal_moves |-> <<>>, keys |-> <<>>, i |-> 1,
     best_eval |-> 0, best_move |-> NoMove,
     at |-> "entry", called_on |-> b]

\* An activation of ChessEndgameSolver.minimax (lines 407-443).
NewFrameS(b, depth, alpha, beta, maximizing_player) ==
    [depth |-> depth, alpha |-> alpha, beta |-> beta,
     maximizing_player |-> maximizing_player,
     board_fen |-> fen(b), legal_moves |-> <<>>, i |-> 1, best_eval |-> 0,
     at |-> "entry", called_on |-> b]

\* A faulty lookup: the depth of the entry is not compared.
TableHit_AnyDepth(table, key, depth) == key \in DOMAIN table
\* Lines 410-413: the table holds the position, searched at least as deep.
TableHit(table, key, depth) == key \in DOMAIN table /\ table[key].depth >= depth

\* Lines 417, 430 and 442.
Store(table, key, value, depth) ==
    (key :> [value |-> value, depth |-> depth]) @@ table

\* The boards get_ai_move and find_best_move are called on, and the depth bound.
MaxDepth == 3
B(wk, bk, rk, rc, turn, castle) ==
    [wk |-> wk, bk |-> bk, rk |-> rk, rc |-> rc, turn |-> turn, castle |-> castle,
     halfmove_clock |-> 0, fullmove_number |-> 1, stack |-> <<>>]

\* Program 1 (Black has the rook): the game after White's first move, the
\* rook next to the white king's reach, a mate in one, a checkmate, a
\* stalemate and two bare kings.
RootBoards_P1 ==
    {B(12, 60, 63, BLACK, BLACK, TRUE),
     B(14, 44, 63, BLACK, BLACK, FALSE),
     B(0, 17, 63, BLACK, BLACK, FALSE),
     B(0, 17, 7, BLACK, WHITE, FALSE),
     B(0, 16, 57, BLACK, WHITE, FALSE),
     B(0, 18, NoSquare, BLACK, BLACK, FALSE)}

\* Program 3 (White has the rook, the computer has the bare king): the game
\* after White's first move, the rook within the black king's reach, a mate
\* in one for White, a checkmate, a stalemate, two bare kings, and the
\* mirrored ending with a mate in one for Black.
RootBoards_P3 ==
    {B(4, 60, 48, WHITE, BLACK, FALSE),
     B(12, 60, 0, WHITE, BLACK, FALSE),
     B(42, 57, 50, WHITE, BLACK, FALSE),
     B(41, 56, 7, WHITE, WHITE, FALSE),
     B(41, 56, 63, WHITE, BLACK, FALSE),
     B(40, 56, 1, WHITE, BLACK, FALSE),
     B(36, 16, NoSquare, WHITE, BLACK, FALSE),
     B(0, 17, 63, BLACK, BLACK, FALSE)}

\* The solver (White has the rook and is the computer): the start of the
\* game, a mate in one, a position near stalemate and two bare kings.
RootBoards_S ==
    {B(4, 60, 0, WHITE, WHITE, FALSE),
     B(41, 56, 7, WHITE, WHITE, FALSE),
     B(42, 56, 9, WHITE, WHITE, FALSE),
     B(36, 16, NoSquare, WHITE, WHITE, FALSE)}

\* Program 4 (Black has the rook, on a8 with the right to castle): the game
\* after White's first move, and the rook on a1.
RootBoards_P4 ==
    {B(12, 60, A8, BLACK, BLACK, TRUE),
     B(60, 12, 0, BLACK, BLACK, FALSE)}

RootBoards(p) ==
    IF p = "P1" THEN RootBoards_P1
    ELSE IF p = "P3" THEN RootBoards_P3
    ELSE IF p = "P4" THEN RootBoards_P4
    ELSE RootBoards_S

\* The boards minimax is called on directly: a mate in one for the side with
\* the rook, Black's or White's, and a checkmate.
MinimaxBoards ==
    {B(0, 17, 63, BLACK, BLACK, FALSE),
     B(41, 56, 7, WHITE, WHITE, FALSE),
     B(0, 17, 7, BLACK, WHITE, FALSE)}

\* What is called: get_ai_move (which starts with the scan in programs 1
\* and 4), find_best_move, or minimax itself.
EntryPoints(p) ==
    IF p = "P1" THEN {"scan", "minimax"}
    ELSE IF p = "P4" THEN {"scan"}
    ELSE IF p = "P3" THEN {"deepen", "minimax"}
    ELSE {"root"}

\* The depth argument.  find_best_move makes the root move itself and calls
\* minimax with depth - 1 (lines 453, 455), so that minimax is nested at most
\* MaxDepth deep in every program.
Depths(p) == IF p = "S" THEN 1 .. MaxDepth + 1 ELSE 0 .. MaxDepth

\* prog: the program called; input, depth: the arguments of the call; board:
\* the board, which the call changes and restores; scan: the index of the
\* loop over board.legal_moves of lines 205 and 450; pc: the place in
\* get_ai_move or find_best_move; current_depth, best_move, best_value: their
\* locals; frames: the activations of minimax, ret: the value the last one
\* returned; result: the move returned; selected_square, message: the fields
\* of ChessEndgameSolver that handle_click and computer_move write, and the
\* selection of the main functions; running, game_over: the flags of the
\* game loops.
VARIABLES prog, board, input, depth, pc, scan, current_depth, best_move,
          frames, ret, result, best_value, transposition_table,
          selected_square, message, running, game_over

search == <<best_value, transposition_table>>
ui == <<selected_square, message, running, game_over>>
vars == <<prog, board, input, depth, pc, scan, current_depth, best_move,
          frames, ret, result, search, ui>>

Top == frames[Len(frames)]
SetTop(f) == [frames EXCEPT ![Len(frames)] = f]
DropTop == SubSeq(frames, 1, Len(frames) - 1)

Init ==
    /\ prog \in {"P1", "P3", "P4", "S"}
    /\ pc \in EntryPoints(prog)
    /\ input \in (IF pc = "minimax" THEN MinimaxBoards ELSE RootBoards(prog))
    /\ board = input
    /\ depth \in Depths(prog)
    /\ best_value = IF input.turn = WHITE THEN NegInf ELSE PosInf
    /\ transposition_table = <<>>
    /\ scan = 1
    /\ current_depth = 1
    /\ best_move = NoMove
    /\ frames = <<>>
    /\ ret = [eval |-> 0, move |-> NoMove]
    /\ result = NoMove
    /\ selected_square = NoSquare
    /\ message = ""
    /\ running = TRUE
    /\ game_over = FALSE

\* ---- get_ai_move (lines 200-219)
\* Lines 205-206: the next root move is tried.
ScanPush ==
    /\ pc = "scan"
    /\ scan <= Len(legal_moves(board))
    /\ board' = push(board, legal_moves(board)[scan])
    /\ pc' = "scanned"
    /\ UNCHANGED <<ui, prog, input, depth, scan, current_depth, best_move, frames, ret,
                   result, search>>

\* A faulty fast path: the mating move is returned without being undone.
ScanMate_NoPop ==
    /\ pc = "scanned"
    /\ is_checkmate(board)
    /\ result' = board.stack[Len(board.stack)].move
    /\ pc' = "done"
    /\ UNCHANGED <<ui, prog, board, input, depth, scan, current_depth, best_move,
                   frames, ret,
                   search>>

\* Lines 207-209: it mates; it is undone and returned.
ScanMate ==
    /\ pc = "scanned"
    /\ is_checkmate(board)
    /\ board' = pop(board)
    /\ result' = board.stack[Len(board.stack)].move
    /\ pc' = "done"
    /\ UNCHANGED <<ui, prog, input, depth, scan, current_depth, best_move, frames,
                   ret, search>>

\* Line 210: it does not mate; it is undone.
ScanPop ==
    /\ pc = "scanned"
    /\ ~is_checkmate(board)
    /\ board' = pop(board)
    /\ scan' = scan + 1
    /\ pc' = "scan"
    /\ UNCHANGED <<ui, prog, input, depth, current_depth, best_move, frames, ret,
                   result, search>>

\* Line 205 to 213: no root move mates.
ScanEnd ==
    /\ pc = "scan"
    /\ scan > Len(legal_moves(board))
    /\ pc' = "deepen"
    /\ current_depth' = 1
    /\ UNCHANGED <<ui, prog, board, input, depth, scan, best_move, frames, ret,
                   result, search>>

\* Lines 213-214: the search at the next depth is called, Black maximizing.
DeepenCall ==
    /\ pc = "deepen"
    /\ current_depth <= depth
    /\ frames' = <<NewFrame(board, current_depth, NegInf, PosInf,
                            board.turn = MaximizingColor(prog))>>
    /\ pc' = "searching"
    /\ UNCHANGED <<ui, prog, board, input, depth, scan, current_depth, best_move, ret,
                   result, search>>

\* Line 164: minimax is called with the full window and the flag of the side
\* to move.
CallMinimax ==
    /\ pc = "minimax"
    /\ frames' = <<NewFrame(board, depth, NegInf, PosInf,
                            board.turn = MaximizingColor(prog))>>
    /\ pc' = "called"
    /\ UNCHANGED <<ui, prog, board, input, depth, scan, current_depth, best_move, ret,
                   result, search>>

\* A faulty loop: the clock is also read while the search runs, and the best
\* move the root has found so far is returned.
DeepenReturn_MidSearch ==
    /\ pc = "searching"
    /\ IF frames = <<>>
       THEN /\ best_move' = ret.move
            /\ \E timeout \in (IF SameText(prog) THEN BOOLEAN ELSE {FALSE}) :
                  IF is_checkmate(board) \/ is_stalemate(board) \/ timeout
                  THEN /\ pc' = "done"
                       /\ result' = ret.move
                       /\ UNCHANGED current_depth
                  ELSE /\ pc' = "deepen"
                       /\ current_depth' = current_depth + 1
                       /\ UNCHANGED result
            /\ UNCHANGED <<board, frames>>
       ELSE /\ SameText(prog)
            /\ Len(frames) = 1
            /\ Top.at = "loop"
            /\ best_move' = Top.best_move
            /\ result' = Top.best_move
            /\ pc' = "done"
            /\ frames' = <<>>
            /\ UNCHANGED <<board, current_depth>>
    /\ UNCHANGED <<ui, prog, input, depth, scan, ret, search>>

\* Lines 214 and 216-217: the search has returned; its move is kept; the loop
\* ends on a finished game or when more than two seconds have passed.
DeepenReturn ==
    /\ pc = "searching"
    /\ frames = <<>>
    /\ best_move' = ret.move
    /\ \E timeout \in (IF SameText(prog) THEN BOOLEAN ELSE {FALSE}) :
          IF is_checkmate(board) \/ is_stalemate(board) \/ timeout
          THEN /\ pc' = "done"
               /\ result' = ret.move
               /\ UNCHANGED current_depth
          ELSE /\ pc' = "deepen"
               /\ current_depth' = current_depth + 1
               /\ UNCHANGED result
    /\ UNCHANGED <<ui, prog, board, input, depth, scan, frames, ret, search>>

\* Lines 213 and 219: every depth is done.
Return ==
    /\ pc = "deepen"
    /\ current_depth > depth
    /\ result' = best_move
    /\ pc' = "done"
    /\ UNCHANGED <<ui, prog, board, input, depth, scan, current_depth, best_move,
                   frames,
                   ret, search>>

\* ---- minimax (lines 164-198), the activation on top of the stack
\* Lines 165-166.
MinimaxLeaf ==
    /\ prog # "S"
    /\ frames # <<>>
    /\ Top.at = "entry"
    /\ Top.depth = 0 \/ is_game_over(board)
    /\ ret' = [eval |-> Evaluate(prog, board), move |-> NoMove]
    /\ frames' = DropTop
    /\ UNCHANGED <<ui, prog, board, input, depth, pc, scan, current_depth,
                   best_move, result,
                   search>>

\* Lines 168-169.
MinimaxMoves ==
    /\ prog # "S"
    /\ frames # <<>>
    /\ Top.at = "entry"
    /\ ~(Top.depth = 0 \/ is_game_over(board))
    /\ frames' = SetTop([Top EXCEPT !.legal_moves = legal_moves(board),
                                    !.keys = <<>>, !.at = "sort"])
    /\ UNCHANGED <<ui, prog, board, input, depth, pc, scan, current_depth,
                   best_move, ret,
                   result, search>>

\* Lines 171 and 142: the sort asks evaluate_move for the next move's key.
EvaluateMovePush ==
    /\ prog # "S"
    /\ frames # <<>>
    /\ Top.at = "sort"
    /\ Len(Top.keys) < Len(Top.legal_moves)
    /\ board' = push(board, Top.legal_moves[Len(Top.keys) + 1])
    /\ frames' = SetTop([Top EXCEPT !.at = "probe"])
    /\ UNCHANGED <<ui, prog, input, depth, pc, scan, current_depth, best_move, ret,
                   result, search>>

\* Lines 144-162.
EvaluateMovePop ==
    /\ prog # "S"
    /\ frames # <<>>
    /\ Top.at = "probe"
    /\ board' = pop(board)
    /\ frames' = SetTop([Top EXCEPT
          !.keys = Append(@, Probe(prog, board, board.stack[Len(board.stack)].move)),
          !.at = "sort"])
    /\ UNCHANGED <<ui, prog, input, depth, pc, scan, current_depth, best_move, ret,
                   result, search>>

\* Lines 171 and 174 or 187: the moves are sorted, the loop starts.
MinimaxSorted ==
    /\ prog # "S"
    /\ frames # <<>>
    /\ Top.at = "sort"
    /\ Len(Top.keys) = Len(Top.legal_moves)
    /\ frames' = SetTop([Top EXCEPT
          !.legal_moves = SortByKey(@, Top.keys, Top.maximizing_player),
          !.best_eval = IF Top.maximizing_player THEN NegInf ELSE PosInf,
          !.i = 1,
          !.at = "loop"])
    /\ UNCHANGED <<ui, prog, board, input, depth, pc, scan, current_depth,
                   best_move, ret,
                   result, search>>

\* Lines 176-177 and 189-190: the move is applied and the search recurses.
MinimaxPush ==
    /\ prog # "S"
    /\ frames # <<>>
    /\ Top.at = "loop"
    /\ Top.i <= Len(Top.legal_moves)
    /\ board' = push(board, Top.legal_moves[Top.i])
    /\ frames' = Append(SetTop([Top EXCEPT !.at = "called"]),
                        NewFrame(board', Top.depth - 1, Top.alpha, Top.beta,
                                 ~Top.maximizing_player))
    /\ UNCHANGED <<ui, prog, input, depth, pc, scan, current_depth, best_move, ret,
                   result, search>>

\* A faulty loop body: the move kept is the one the child returned, when it
\* returned one.
MinimaxPop_ChildMove ==
    /\ prog # "S"
    /\ frames # <<>>
    /\ Top.at = "called"
    /\ board' = pop(board)
    /\ LET f == Top
           eval == ret.eval
           better == Improves(f.maximizing_player, eval, f.best_eval)
           alpha == NewAlpha(f.maximizing_player, f.alpha, eval)
           beta == NewBeta(f.maximizing_player, f.beta, eval)
       IN frames' = SetTop([f EXCEPT
             !.best_eval = IF better THEN eval ELSE @,
             !.best_move = IF ~better THEN @
                           ELSE IF ret.move # NoMove THEN ret.move ELSE f.legal_moves[f.i],
             !.alpha = alpha,
             !.beta = beta,
             !.i = IF Cutoff(alpha, beta) THEN @ ELSE @ + 1,
             !.at = IF Cutoff(alpha, beta) THEN "break" ELSE "loop"])
    /\ UNCHANGED <<ui, prog, input, depth, pc, scan, current_depth, best_move, ret,
                   result, search>>

\* A faulty loop: it does not go on to the next move.
MinimaxPop_SameMove ==
    /\ prog # "S"
    /\ frames # <<>>
    /\ Top.at = "called"
    /\ board' = pop(board)
    /\ LET f == Top
           eval == ret.eval
           better == Improves(f.maximizing_player, eval, f.best_eval)
           alpha == NewAlpha(f.maximizing_player, f.alpha, eval)
           beta == NewBeta(f.maximizing_player, f.beta, eval)
       IN frames' = SetTop([f EXCEPT
             !.best_eval = IF better THEN eval ELSE @,
             !.best_move = IF better THEN f.legal_moves[f.i] ELSE @,
             !.alpha = alpha,
             !.beta = beta,
             !.at = IF Cutoff(alpha, beta) THEN "break" ELSE "loop"])
    /\ UNCHANGED <<ui, prog, input, depth, pc, scan, current_depth, best_move, ret,
                   result, search>>

\* A faulty loop: on a cutoff it breaks before the move is undone.
MinimaxPop_BreakBeforePop ==
    /\ prog # "S"
    /\ frames # <<>>
    /\ Top.at = "called"
    /\ board' = IF Cutoff(NewAlpha(Top.maximizing_player, Top.alpha, ret.eval),
                          NewBeta(Top.maximizing_player, Top.beta, ret.eval))
                THEN board ELSE pop(board)
    /\ LET f == Top
           eval == ret.eval
           better == Improves(f.maximizing_player, eval, f.best_eval)
           alpha == NewAlpha(f.maximizing_player, f.alpha, eval)
           beta == NewBeta(f.maximizing_player, f.beta, eval)
       IN frames' = SetTop([f EXCEPT
             !.best_eval = IF better THEN eval ELSE @,
             !.best_move = IF better THEN f.legal_moves[f.i] ELSE @,
             !.alpha = alpha,
             !.beta = beta,
             !.i = IF Cutoff(alpha, beta) THEN @ ELSE @ + 1,
             !.at = IF Cutoff(alpha, beta) THEN "break" ELSE "loop"])
    /\ UNCHANGED <<ui, prog, input, depth, pc, scan, current_depth, best_move, ret,
                   result, search>>

\* Lines 178-184 and 191-197: the child has returned; the move is undone, the
\* best and the window are updated, and the loop goes on or breaks.
MinimaxPop ==
    /\ prog # "S"
    /\ frames # <<>>
    /\ Top.at = "called"
    /\ board' = pop(board)
    /\ LET f == Top
           eval == ret.eval
           better == Improves(f.maximizing_player, eval, f.best_eval)
           alpha == NewAlpha(f.maximizing_player, f.alpha, eval)
           beta == NewBeta(f.maximizing_player, f.beta, eval)
       IN frames' = SetTop([f EXCEPT
             !.best_eval = IF better THEN eval ELSE @,
             !.best_move = IF better THEN f.legal_moves[f.i] ELSE @,
             !.alpha = alpha,
             !.beta = beta,
             !.i = IF Cutoff(alpha, beta) THEN @ ELSE @ + 1,
             !.at = IF Cutoff(alpha, beta) THEN "break" ELSE "loop"])
    /\ UNCHANGED <<ui, prog, input, depth, pc, scan, current_depth, best_move, ret,
                   result, search>>

\* Lines 185 and 198.
MinimaxReturn ==
    /\ prog # "S"
    /\ frames # <<>>
    /\ IF Top.at = "loop" THEN Top.i > Len(Top.legal_moves) ELSE Top.at = "break"
    /\ ret' = [eval |-> Top.best_eval, move |-> Top.best_move]
    /\ frames' = DropTop
    /\ UNCHANGED <<ui, prog, board, input, depth, pc, scan, current_depth,
                   best_move, result,
                   search>>

\* ---- ChessEndgameSolver.find_best_move (lines 445-465)
\* Lines 450-455: the root move is applied and the search is called; the side
\* to move after the root move decides the flag.
FindPush ==
    /\ pc = "root"
    /\ scan <= Len(legal_moves(board))
    /\ board' = push(board, legal_moves(board)[scan])
    /\ frames' = <<NewFrameS(board', depth - 1, NegInf, PosInf, board'.turn = BLACK)>>
    /\ pc' = "root_called"
    /\ UNCHANGED <<ui, prog, input, depth, scan, current_depth, best_move, ret,
                   result, search>>

\* Lines 456-463: the move is undone and kept when it is strictly better.
FindPop ==
    /\ pc = "root_called"
    /\ frames = <<>>
    /\ board' = pop(board)
    /\ LET move == board.stack[Len(board.stack)].move
           better == IF board'.turn = WHITE THEN ret.eval > best_value
                     ELSE ret.eval < best_value
       IN /\ best_value' = IF better THEN ret.eval ELSE best_value
          /\ best_move' = IF better THEN move ELSE best_move
    /\ scan' = scan + 1
    /\ pc' = "root"
    /\ UNCHANGED <<ui, prog, input, depth, current_depth, frames, ret, result,
                   transposition_table>>

\* Line 465.
FindReturn ==
    /\ pc = "root"
    /\ scan > Len(legal_moves(board))
    /\ result' = best_move
    /\ pc' = "done"
    /\ UNCHANGED <<ui, prog, board, input, depth, scan, current_depth, best_move,
                   frames, ret,
                   search>>

\* ---- ChessEndgameSolver.minimax (lines 407-443)
\* Lines 409-413: the stored value is returned.
SolverHit ==
    /\ prog = "S"
    /\ frames # <<>>
    /\ Top.at = "entry"
    /\ TableHit(transposition_table, Top.board_fen, Top.depth)
    /\ ret' = [eval |-> transposition_table[Top.board_fen].value, move |-> NoMove]
    /\ frames' = DropTop
    /\ UNCHANGED <<ui, prog, board, input, depth, pc, scan, current_depth,
                   best_move, result,
                   search>>

\* Lines 415-418: a leaf is evaluated and stored.
SolverLeaf ==
    /\ prog = "S"
    /\ frames # <<>>
    /\ Top.at = "entry"
    /\ ~TableHit(transposition_table, Top.board_fen, Top.depth)
    /\ Top.depth = 0 \/ is_game_over(board)
    /\ ret' = [eval |-> evaluate_board_S(board), move |-> NoMove]
    /\ transposition_table' =
          Store(transposition_table, Top.board_fen, evaluate_board_S(board), Top.depth)
    /\ frames' = DropTop
    /\ UNCHANGED <<ui, prog, board, input, depth, pc, scan, current_depth,
                   best_move, result,
                   best_value>>

\* Lines 420-422 and 432-434: the loop over the legal moves starts.
SolverMoves ==
    /\ prog = "S"
    /\ frames # <<>>
    /\ Top.at = "entry"
    /\ ~TableHit(transposition_table, Top.board_fen, Top.depth)
    /\ ~(Top.depth = 0 \/ is_game_over(board))
    /\ frames' = SetTop([Top EXCEPT
          !.legal_moves = legal_moves(board),
          !.best_eval = IF Top.maximizing_player THEN NegInf ELSE PosInf,
          !.i = 1,
          !.at = "loop"])
    /\ UNCHANGED <<ui, prog, board, input, depth, pc, scan, current_depth,
                   best_move, ret,
                   result, search>>

\* Lines 423-424 and 435-436.
SolverPush ==
    /\ prog = "S"
    /\ frames # <<>>
    /\ Top.at = "loop"
    /\ Top.i <= Len(Top.legal_moves)
    /\ board' = push(board, Top.legal_moves[Top.i])
    /\ frames' = Append(SetTop([Top EXCEPT !.at = "called"]),
                        NewFrameS(board', Top.depth - 1, Top.alpha, Top.beta,
                                  ~Top.maximizing_player))
    /\ UNCHANGED <<ui, prog, input, depth, pc, scan, current_depth, best_move, ret,
                   result,
                   search>>

\* Lines 425-429 and 437-441.
SolverPop ==
    /\ prog = "S"
    /\ frames # <<>>
    /\ Top.at = "called"
    /\ board' = pop(board)
    /\ LET f == Top
           eval == ret.eval
           alpha == NewAlpha(f.maximizing_player, f.alpha, eval)
           beta == NewBeta(f.maximizing_player, f.beta, eval)
       IN frames' = SetTop([f EXCEPT
             !.best_eval = IF f.maximizing_player THEN Max2(@, eval) ELSE Min2(@, eval),
             !.alpha = alpha,
             !.beta = beta,
             !.i = IF Cutoff(alpha, beta) THEN @ ELSE @ + 1,
             !.at = IF Cutoff(alpha, beta) THEN "break" ELSE "loop"])
    /\ UNCHANGED <<ui, prog, input, depth, pc, scan, current_depth, best_move, ret,
                   result,
                   search>>

\* Lines 430-431 and 442-443: the value is stored and returned.
SolverReturn ==
    /\ prog = "S"
    /\ frames # <<>>
    /\ IF Top.at = "loop" THEN Top.i > Len(Top.legal_moves) ELSE Top.at = "break"
    /\ ret' = [eval |-> Top.best_eval, move |-> NoMove]
    /\ transposition_table' =
          Store(transposition_table, Top.board_fen, Top.best_eval, Top.depth)
    /\ frames' = DropTop
    /\ UNCHANGED <<ui, prog, board, input, depth, pc, scan, current_depth,
                   best_move, result,
                   best_value>>

Next ==
    \/ FindPush
    \/ FindPop
    \/ FindReturn
    \/ SolverHit
    \/ SolverLeaf
    \/ SolverMoves
    \/ SolverPush
    \/ SolverPop
    \/ SolverReturn
    \/ ScanPush
    \/ ScanMate
    \/ ScanPop
    \/ ScanEnd
    \/ DeepenCall
    \/ CallMinimax
    \/ DeepenReturn
    \/ Return
    \/ MinimaxLeaf
    \/ MinimaxMoves
    \/ EvaluateMovePush
    \/ EvaluateMovePop
    \/ MinimaxSorted
    \/ MinimaxPush
    \/ MinimaxPop
    \/ MinimaxReturn

Spec == Init /\ [][Next]_vars

\* ---- ChessEndgameSolver: the object and its game loop (lines 353-361,
\* 520-597)
\* The number of decisions of a game that are followed.
MaxDecisions == 2

\* self.max_depth, the depth computer_move asks for.
max_depth == 3

\* Lines 363-369: the three pieces are placed and White is to move.
setup_custom_position(white_king_pos, white_rook_pos, black_king_pos) ==
    B(white_king_pos, black_king_pos, white_rook_pos, WHITE, WHITE, FALSE)

\* Line 575: the position run sets up, E1, A1, E8.
RunStart == setup_custom_position(4, 0, E8)

\* The boards the loop is followed from: the position of run, and, to follow
\* the handlers on the human's turn as well, three positions with Black to
\* move: the black king in the corner with one move, the black king next to
\* the unprotected rook, and the black king in the open.
LoopBoards ==
    {RunStart,
     B(42, 56, 9, WHITE, BLACK, FALSE),
     B(4, 62, 55, WHITE, BLACK, FALSE),
     B(42, 60, 9, WHITE, BLACK, FALSE)}

\* `move in self.board.legal_moves` (line 535).
IsLegal(b, m) == \E i \in 1 .. Len(legal_moves(b)) : legal_moves(b)[i] = m

\* Lines 520-549, for a click on a square of the board: on Black's turn a
\* click on a black piece selects it; with a selection that python takes for
\* true (not None and not square 0) a click elsewhere plays the move if it is
\* legal, and run calls computer_move (lines 586-589), or reports an invalid
\* move; on White's turn the click only sets the message.
handle_click ==
    /\ pc = "idle"
    /\ \E clicked \in SQUARES :
          IF board.turn = BLACK
          THEN IF clicked \in OwnSquares(board, BLACK)
               THEN /\ selected_square' = clicked
                    /\ UNCHANGED <<board, message, pc>>
               ELSE IF ~Falsy(selected_square)
                    THEN IF IsLegal(board, Move(selected_square, clicked))
                         THEN /\ board' = push(board, Move(selected_square, clicked))
                              /\ selected_square' = NoSquare
                              /\ message' = ""
                              /\ pc' = "computer_move"
                         ELSE /\ message' = "Invalid move!"
                              /\ UNCHANGED <<board, selected_square, pc>>
                    ELSE UNCHANGED <<board, selected_square, message, pc>>
          ELSE /\ message' = "Wait for computer to move"
               /\ UNCHANGED <<board, selected_square, pc>>
    /\ UNCHANGED <<prog, input, depth, scan, current_depth, best_move, frames,
                   ret, result, search, running, game_over>>

\* Lines 551-558: computer_move returns at once when the game is over or it
\* is not White's turn, and calls find_best_move otherwise.
computer_move ==
    /\ pc = "computer_move"
    /\ IF ~is_game_over(board) /\ board.turn = WHITE
       THEN /\ pc' = "root"
            /\ input' = board
            /\ scan' = 1
            /\ best_move' = NoMove
            /\ best_value' = NegInf
            /\ result' = NoMove
       ELSE /\ pc' = "idle"
            /\ UNCHANGED <<input, scan, best_move, best_value, result>>
    /\ UNCHANGED <<ui, prog, board, depth, current_depth, frames, ret,
                   transposition_table>>

\* Lines 561-567: the move found is pushed, and line 563 then asks the board
\* for the notation of a move whose from-square is empty by now, which the
\* library refuses with an exception that computer_move does not catch;
\* without a move computer_move returns False.
computer_move_Play ==
    /\ pc = "done"
    /\ IF result # NoMove
       THEN /\ board' = push(board, result)
            /\ pc' = "raised"
       ELSE /\ pc' = "idle"
            /\ UNCHANGED board
    /\ UNCHANGED <<ui, prog, input, depth, scan, current_depth, best_move,
                   frames, ret, result, search>>

\* Lines 583-584: the window is closed; running becomes False and the events
\* that came with this one are still handled.
Quit ==
    /\ pc = "idle"
    /\ running' = FALSE
    /\ UNCHANGED <<prog, board, input, depth, pc, scan, current_depth,
                   best_move, frames, ret, result, search, selected_square,
                   message, game_over>>

\* Lines 580 and 596-597: the events are handled, running is False, run ends.
EndLoop ==
    /\ pc = "idle"
    /\ ~running
    /\ pc' = "quit"
    /\ UNCHANGED <<ui, prog, board, input, depth, scan, current_depth,
                   best_move, frames, ret, result, search>>

\* The object after __init__ (lines 353-361), with its board set.
LoopInit ==
    /\ prog = "S"
    /\ pc = "idle"
    /\ board \in LoopBoards
    /\ input = board
    /\ depth = max_depth
    /\ best_value = NegInf
    /\ transposition_table = <<>>
    /\ scan = 1
    /\ current_depth = 1
    /\ best_move = NoMove
    /\ frames = <<>>
    /\ ret = [eval |-> 0, move |-> NoMove]
    /\ result = NoMove
    /\ selected_square = NoSquare
    /\ message = ""
    /\ running = TRUE
    /\ game_over = FALSE

\* What the program does by itself, once a click has been handled.
LoopRuns ==
    \/ computer_move
    \/ computer_move_Play
    \/ FindPush
    \/ FindPop
    \/ FindReturn
    \/ SolverHit
    \/ SolverLeaf
    \/ SolverMoves
    \/ SolverPush
    \/ SolverPop
    \/ SolverReturn

\* run: the exception of line 563 is not caught, the program ends with it.
LoopNext ==
    \/ handle_click
    \/ Quit
    \/ EndLoop
    \/ LoopRuns

LoopSpec == LoopInit /\ [][LoopNext]_vars

\* The loop with every click delivered and every call running to its end.
LoopFairSpec == LoopSpec /\ WF_vars(handle_click) /\ WF_vars(LoopRuns)

\* ---- ChessEndgameSolver: the methods of one object called in turn, outside
\* run, by a caller that goes on after an exception
\* The caller has caught the exception of line 563; the object is as
\* computer_move left it, with its move on the board and its table filled.
Caught ==
    /\ pc = "raised"
    /\ Len(board.stack) < 2 * (MaxDecisions - 1)
    /\ pc' = "idle"
    /\ UNCHANGED <<ui, prog, board, input, depth, scan, current_depth,
                   best_move, frames, ret, result, search>>

\* The caller sets up a board with White to move and calls computer_move.
GameInit ==
    /\ prog = "S"
    /\ pc = "computer_move"
    /\ board \in RootBoards_S
    /\ input = board
    /\ depth = max_depth
    /\ best_value = NegInf
    /\ transposition_table = <<>>
    /\ scan = 1
    /\ current_depth = 1
    /\ best_move = NoMove
    /\ frames = <<>>
    /\ ret = [eval |-> 0, move |-> NoMove]
    /\ result = NoMove
    /\ selected_square = NoSquare
    /\ message = ""
    /\ running = TRUE
    /\ game_over = FALSE

\* After a human move handle_click returns True and the caller calls
\* computer_move, as run does at line 589.
GameNext ==
    \/ handle_click
    \/ Caught
    \/ LoopRuns

GameSpec == GameInit /\ [][GameNext]_vars

\* ---- main of programs 1, 3 and 4 (lines 236-310, 838-907, 1149-1234)
\* Board.reset (line 1230): the thirty-two pieces of the starting array, White
\* to move, every castling right, the counters at their start and no move on
\* the stack.
StartingArray ==
    [pieces |-> "rnbqkbnr/pppppppp/8/8/8/8/PPPPPPPP/RNBQKBNR", turn |-> WHITE,
     castle |-> "KQkq", halfmove_clock |-> 0, fullmove_number |-> 1,
     stack |-> <<>>]

\* The legal moves of the starting array: every pawn one or two squares
\* ahead, and the knights.
StartingMoves ==
    {Move(s, s + 8) : s \in 8 .. 15} \cup {Move(s, s + 16) : s \in 8 .. 15}
        \cup {Move(1, 16), Move(1, 18), Move(6, 21), Move(6, 23)}

\* `piece and piece.color == chess.WHITE` and `move in board.legal_moves` as
\* main asks them, of the boards of the endgame and of the starting array.
WhiteSquares(b) == IF b = StartingArray THEN 0 .. 15 ELSE OwnSquares(b, WHITE)
LegalOn(b, m) == IF b = StartingArray THEN m \in StartingMoves ELSE IsLegal(b, m)

\* The depth main asks get_ai_move for (lines 304, 896 and 1218).
main_depth == 3

\* The position main sets up, White to move.  Program 1 makes a full board
\* and clears its pieces, which keeps the castling rights (lines 244-251);
\* program 3 clears everything (lines 845-850); program 4 sets the rights
\* itself (lines 1154-1161).
MainStart(p) ==
    IF p = "P1" THEN B(4, E8, H8, BLACK, WHITE, TRUE)
    ELSE IF p = "P3" THEN B(4, E8, 0, WHITE, WHITE, FALSE)
    ELSE B(4, E8, A8, BLACK, WHITE, TRUE)

\* The boards main is followed from: the position it sets up and a position
\* late in such a game: one move before a mate in programs 1 and 3, and with
\* the rook open to capture in program 4.
MainBoards(p) ==
    IF p = "P1" THEN {MainStart(p), B(0, 17, H8, BLACK, WHITE, FALSE)}
    ELSE IF p = "P3" THEN {MainStart(p), B(41, A8, 7, WHITE, WHITE, FALSE)}
    ELSE {MainStart(p), B(0, H8, 1, BLACK, WHITE, FALSE)}

\* The squares the human clicks on: a1, b1, e1 and e2 against the black rook;
\* a1, e1, h1, a7 and h8 with the white rook.  On the starting array the four
\* squares of program 4 hold white pieces and no move between them is legal,
\* so that the clicks after key r select and play nothing: a move there would
\* lead to a search over thirty-two pieces, which is not followed.
ClickSquares(p) == IF p = "P3" THEN {0, 4, 7, 48, H8} ELSE {0, 1, 4, 12}

\* get_ai_move(board, 3) is called on the board as it stands.
GetAiMoveCalled(b) ==
    /\ pc' = IF SameText(prog) THEN "scan" ELSE "deepen"
    /\ input' = b
    /\ scan' = 1
    /\ current_depth' = 1
    /\ best_move' = NoMove
    /\ result' = NoMove

NoCall == UNCHANGED <<pc, input, scan, current_depth, best_move, result>>

\* Lines 279-299 (875-904, 1199-1226), a click on a square on White's turn:
\* without a selection a white piece is selected; with one, the move is played
\* if it is legal, and otherwise the selection passes to the white piece
\* clicked or is dropped.  Programs 3 and 4 call get_ai_move at once when the
\* game is not over (lines 894-896); program 1 leaves it to the next event.
Click(sq, ai_follows) ==
    IF selected_square # NoSquare /\ LegalOn(board, Move(selected_square, sq))
    THEN /\ board # StartingArray
         /\ Len(board.stack) < 2 * MaxDecisions
         /\ LET played == push(board, Move(selected_square, sq))
            IN
            /\ board' = played
            /\ selected_square' = NoSquare
            /\ IF ai_follows /\ ~is_game_over(played)
               THEN GetAiMoveCalled(played)
               ELSE NoCall
    ELSE /\ selected_square' = IF sq \in WhiteSquares(board) THEN sq
                               ELSE NoSquare
         /\ UNCHANGED board
         /\ NoCall

\* The top of the loop (lines 257-272, 855-869, 1169-1193): the loop ends when
\* running is False; programs 1 and 3 clear it on checkmate and stalemate;
\* program 4 sets game_over instead, also without material, and goes on.
\* Program 4 draws the pieces first (line 1172), and draw_pieces has images
\* for K, k and r only: on the starting array line 976 raises KeyError and
\* main ends there.
MainFrame ==
    /\ pc = "frame"
    /\ IF ~running
       THEN pc' = "quit" /\ UNCHANGED <<running, game_over>>
       ELSE IF board = StartingArray
       THEN pc' = "raised" /\ UNCHANGED <<running, game_over>>
       ELSE IF prog = "P4"
            THEN /\ pc' = "events"
                 /\ game_over' = (game_over \/ is_checkmate(board)
                                  \/ is_stalemate(board)
                                  \/ is_insufficient_material(board))
                 /\ UNCHANGED running
            ELSE IF is_checkmate(board) \/ is_stalemate(board)
                 THEN running' = FALSE /\ UNCHANGED <<pc, game_over>>
                 ELSE pc' = "events" /\ UNCHANGED <<running, game_over>>
    /\ UNCHANGED <<prog, board, input, depth, scan, current_depth, best_move,
                   frames, ret, result, search, selected_square, message>>

\* Lines 274, 871, 1195: the events that had come are handled.
MainBatchEnd ==
    /\ pc = "events"
    /\ pc' = "frame"
    /\ UNCHANGED <<ui, prog, board, input, depth, scan, current_depth,
                   best_move, frames, ret, result, search>>

\* A mouse click.  In program 1 any event on Black's turn calls get_ai_move
\* (lines 302-304); in program 4 clicks count only while game_over is False.
MainClick ==
    /\ pc = "events"
    /\ \E sq \in ClickSquares(prog) :
          IF board.turn = WHITE /\ ~(prog = "P4" /\ game_over)
          THEN Click(sq, prog # "P1")
          ELSE /\ UNCHANGED <<board, selected_square>>
               /\ IF prog = "P1" /\ board.turn = BLACK
                  THEN GetAiMoveCalled(board)
                  ELSE NoCall
    /\ UNCHANGED <<prog, depth, frames, ret, search, message, running, game_over>>

\* The window is closed (lines 275-276, 872-873, 1196-1197): running becomes
\* False, the loop over the events goes on, and in program 1 this event too
\* calls get_ai_move on Black's turn.
MainQuitEvent ==
    /\ pc = "events"
    /\ running' = FALSE
    /\ IF prog = "P1" /\ board.turn = BLACK
       THEN GetAiMoveCalled(board)
       ELSE NoCall
    /\ UNCHANGED <<prog, board, depth, frames, ret, search, selected_square,
                   message, game_over>>

\* Any other event (lines 302-304): in program 1, on Black's turn, it calls
\* get_ai_move.
MainOtherEvent ==
    /\ pc = "events"
    /\ prog = "P1"
    /\ board.turn = BLACK
    /\ GetAiMoveCalled(board)
    /\ UNCHANGED <<ui, prog, board, depth, frames, ret, search>>

\* Key r in program 4 (lines 1228-1233): the board is reset to the starting
\* array, the selection is dropped and game_over is cleared.
MainKeyR ==
    /\ pc = "events"
    /\ prog = "P4"
    /\ board' = StartingArray
    /\ selected_square' = NoSquare
    /\ game_over' = FALSE
    /\ UNCHANGED <<prog, input, depth, pc, scan, current_depth, best_move,
                   frames, ret, result, search, message, running>>

\* get_ai_move has returned (lines 305-308, 897-898, 1219-1220): its move is
\* played; without a move program 1 ends its loop.
MainPlay ==
    /\ pc = "done"
    /\ board' = IF result # NoMove THEN push(board, result) ELSE board
    /\ running' = (running /\ ~(prog = "P1" /\ result = NoMove))
    /\ pc' = "events"
    /\ UNCHANGED <<prog, input, depth, scan, current_depth, best_move, frames,
                   ret, result, search, selected_square, message, game_over>>

MainInit ==
    /\ prog \in {"P1", "P3", "P4"}
    /\ pc = "frame"
    /\ board \in MainBoards(prog)
    /\ input = board
    /\ depth = main_depth
    /\ best_value = NegInf
    /\ transposition_table = <<>>
    /\ scan = 1
    /\ current_depth = 1
    /\ best_move = NoMove
    /\ frames = <<>>
    /\ ret = [eval |-> 0, move |-> NoMove]
    /\ result = NoMove
    /\ selected_square = NoSquare
    /\ message = ""
    /\ running = TRUE
    /\ game_over = FALSE

MainNext ==
    \/ MainFrame
    \/ MainBatchEnd
    \/ MainClick
    \/ MainQuitEvent
    \/ MainOtherEvent
    \/ MainKeyR
    \/ MainPlay
    \/ ScanPush
    \/ ScanMate
    \/ ScanPop
    \/ ScanEnd
    \/ DeepenCall
    \/ DeepenReturn
    \/ Return
    \/ MinimaxLeaf
    \/ MinimaxMoves
    \/ EvaluateMovePush
    \/ EvaluateMovePop
    \/ MinimaxSorted
    \/ MinimaxPush
    \/ MinimaxPop
    \/ MinimaxReturn

MainSpec == MainInit /\ [][MainNext]_vars

\* ------------------------------------------------------------ claims
\* The moves of a node in the order minimax examines them (line 171).
OrderedMoves(p, b, maximizing_player) ==
    LET lm == legal_moves(b)
    IN SortByKey(lm, Strict([i \in 1 .. Len(lm) |-> Probe(p, push(b, lm[i]), lm[i])],
                            Len(lm)),
                 maximizing_player)

\* Minimax without pruning: every move of every node is searched, in the same
\* order, and the first move that reaches the best value is kept.
RECURSIVE Unpruned(_, _, _, _)
Unpruned(p, b, d, maximizing_player) ==
    IF d = 0 \/ is_game_over(b) THEN [eval |-> Evaluate(p, b), move |-> NoMove]
    ELSE LET ms == OrderedMoves(p, b, maximizing_player)
             vals == Strict([i \in 1 .. Len(ms) |->
                         Unpruned(p, push(b, ms[i]), d - 1, ~maximizing_player).eval], Len(ms))
             better(x, y) == IF maximizing_player THEN x > y ELSE x < y
             first == CHOOSE i \in 1 .. Len(ms) :
                         /\ \A j \in 1 .. Len(ms) : ~better(vals[j], vals[i])
                         /\ \A j \in 1 .. i - 1 : vals[j] # vals[i]
         IN [eval |-> vals[first], move |-> ms[first]]

\* The call of minimax made with the full window has returned, and its depth.
RootReturned == pc \in {"searching", "called"} /\ frames = <<>>
RootDepth == IF pc = "called" THEN depth ELSE current_depth

\* C1: minimax called with the window (-inf, +inf), at any depth >= 0, returns
\* the value and the move of the unpruned search of the same tree, which
\* examines the moves in the same order and keeps the first best one.
C1_PruningKeepsResult ==
    RootReturned =>
        ret = Unpruned(prog, board, RootDepth, board.turn = MaximizingColor(prog))

C1_Witness ==
    /\ pc = "searching"
    /\ frames = <<>>
    /\ current_depth = MaxDepth
    /\ ret.move # NoMove
    /\ ret = Unpruned(prog, board, current_depth, board.turn = MaximizingColor(prog))

\* C2: when minimax, evaluate_move or get_ai_move has returned, the board is
\* the board of before the call, with its pieces, side to move and move stack
\* (and so with its legal moves and its terminal status): get_ai_move and
\* find_best_move leave the input board, the scan and the sort leave the
\* board of their caller, and a child search leaves the board its caller had
\* after applying the move.
C2_BoardRestored ==
    /\ pc \in {"scan", "deepen", "minimax", "root", "done"} => board = input
    /\ RootReturned => board = input
    /\ frames # <<>> =>
          frames[1].called_on =
             IF pc = "root_called" THEN push(input, legal_moves(input)[scan]) ELSE input
    /\ \A k \in 1 .. Len(frames) :
          LET f == frames[k]
              now == IF k = Len(frames) THEN board ELSE frames[k + 1].called_on
          IN IF f.at = "called" THEN now = push(f.called_on, f.legal_moves[f.i])
             ELSE IF f.at = "probe"
                  THEN now = push(f.called_on, f.legal_moves[Len(f.keys) + 1])
                  ELSE now = f.called_on

C2_Witness ==
    /\ pc = "done"
    /\ prog = "P1"
    /\ depth = MaxDepth
    /\ current_depth > MaxDepth
    /\ result # NoMove
    /\ board = input

IsLegalMove(b, m) == \E i \in 1 .. Len(legal_moves(b)) : legal_moves(b)[i] = m

\* C3: a move that get_ai_move or find_best_move returns is one of the legal
\* moves of the board it was called on.
C3_ReturnedMoveIsLegal ==
    (pc = "done" /\ result # NoMove) => IsLegalMove(input, result)

C3_Witness ==
    /\ pc = "done"
    /\ prog = "S"
    /\ depth = MaxDepth
    /\ result # NoMove
    /\ IsLegalMove(input, result)

\* C4: get_ai_move returns no move exactly when the board it is called on has
\* no legal move, whatever the depth >= 0.
C4_NoneIffNoLegalMove ==
    (pc = "done" /\ prog # "S") => (result = NoMove <=> legal_moves(input) = <<>>)

\* The side to move has a move that mates at once; the move m mates.
MatesInOne(b) ==
    \E i \in 1 .. Len(legal_moves(b)) : is_checkmate(push(b, legal_moves(b)[i]))
Mates(b, m) == m # NoMove /\ is_checkmate(push(b, m))

\* C5: called with a depth >= 1 on a board where the side to move can mate at
\* once, get_ai_move and find_best_move return a move that mates.
C5_MateInOneIsPlayed ==
    (pc = "done" /\ depth >= 1 /\ MatesInOne(input)) => Mates(input, result)

\* C6: minimax called with the full window and a depth >= 1 on a board where
\* the side to move can mate at once returns a move that mates, and the mate
\* score with the sign of the side that mates.
C6_SearchFindsMateInOne ==
    (RootReturned /\ prog # "S" /\ RootDepth >= 1 /\ MatesInOne(board)) =>
        /\ Mates(board, ret.move)
        /\ ret.eval = IF board.turn = MaximizingColor(prog) THEN MATE ELSE -MATE

\* get_ai_move returned from its scan; the last depth its loop searched.
ViaScan == SameText(prog) /\ scan <= Len(legal_moves(input))
LastDepth == Min2(current_depth, depth)
\* The depth being searched is one of 1 .. depth and its search is a search of
\* the input board; the move returned from the loop is that of the last depth.
C7_DepthOrder ==
    /\ pc = "searching" => current_depth \in 1 .. depth
    /\ (pc = "searching" /\ frames # <<>>) =>
          frames[1].depth = current_depth /\ frames[1].called_on = input
    /\ (pc = "done" /\ prog # "S" /\ ~ViaScan /\ depth >= 1) =>
          /\ result = ret.move
          /\ result = Unpruned(prog, input, LastDepth,
                               input.turn = MaximizingColor(prog)).move
\* The depth changes, the loop is left and the result is set only between the
\* searches of two depths, when no call of minimax is active.
C7_DepthBoundary ==
    /\ current_depth' # current_depth =>
          pc = "searching" /\ frames = <<>> /\ current_depth' = current_depth + 1
    /\ (pc = "searching" /\ pc' # "searching") => frames = <<>>
    /\ (prog # "S" /\ result' # result) => frames = <<>>
\* C7: get_ai_move searches at the depths 1, 2, ... in this order, each on the
\* input board; it leaves the search, and sets its result, only when the
\* search of a depth has returned; and the move it returns from the loop is
\* the best move of the last depth it searched.
C7_DeepestCompletedDepth == []C7_DepthOrder /\ [][C7_DepthBoundary]_vars

C7_Witness ==
    /\ pc = "done"
    /\ prog = "P1"
    /\ ~ViaScan
    /\ current_depth = 2
    /\ depth = MaxDepth
    /\ result # NoMove
    /\ result = ret.move

\* The call has returned.
Terminated == pc = "done" \/ (pc = "called" /\ frames = <<>>)
\* The depth goes down by one from a call to the call it makes, no call is
\* made at depth 0, and the index of a loop stays within the moves of its node.
DepthDecreases ==
    \A k \in 1 .. Len(frames) :
        /\ frames[k].depth >= 0
        /\ frames[k].at \in {"loop", "break", "called"} =>
              frames[k].i \in 1 .. Len(frames[k].legal_moves) + 1
        /\ frames[k].at = "called" => frames[k].i <= Len(frames[k].legal_moves)
        /\ k < Len(frames) =>
              /\ frames[k].at = "called"
              /\ frames[k].depth >= 1
              /\ frames[k + 1].depth = frames[k].depth - 1
\* Control is at a place the code goes on from, and a move is undone only
\* when one has been applied.
GoesOn ==
    /\ pc \in {"scan", "scanned", "deepen", "searching", "minimax", "called",
                "root", "root_called", "done"}
    /\ frames # <<>> =>
          /\ pc \in {"searching", "called", "root_called"}
          /\ Top.at \in {"entry", "sort", "probe", "loop", "called", "break"}
          /\ Top.at \in {"probe", "called"} => board.stack # <<>>
    /\ pc \in {"scanned", "root_called"} => board.stack # <<>>
\* The place of the caller, and the place of an activation, as numbers that
\* grow as the code goes on.
RootPlace ==
    IF pc \in {"scan", "root"} THEN 2 * scan
    ELSE IF pc \in {"scanned", "root_called"} THEN 2 * scan + 1
    ELSE IF pc = "deepen" THEN 2 * (current_depth + 100)
    ELSE IF pc = "searching" THEN 2 * (current_depth + 100) + 1
    ELSE IF pc = "minimax" THEN 0
    ELSE IF pc = "called" THEN 1
    ELSE 2 * (MaxDepth + 102)
FramePlace(f) ==
    IF f.at = "entry" THEN 0
    ELSE IF f.at = "sort" THEN 1 + 2 * Len(f.keys)
    ELSE IF f.at = "probe" THEN 2 + 2 * Len(f.keys)
    ELSE IF f.at = "loop" THEN 100 + 2 * f.i
    ELSE IF f.at = "called" THEN 101 + 2 * f.i
    ELSE 102 + 2 * f.i
Place == <<RootPlace>> \o [k \in 1 .. Len(frames) |-> FramePlace(frames[k])]
\* p comes before q: at the first place where they differ q is further, or q
\* has returned from the call p is still in.
ComesBefore(p, q) ==
    \E j \in 1 .. Len(p) :
        /\ \A i \in 1 .. j - 1 : i <= Len(q) /\ p[i] = q[i]
        /\ j > Len(q) \/ p[j] < q[j]
C8_Safe == DepthDecreases /\ GoesOn
C8_Forward == ComesBefore(Place, Place')

\* C8: every call of get_ai_move, find_best_move and minimax ends, and
\* nothing raises on the way.  The depth goes down by one from a call to the
\* call it makes and no call is made at depth 0; the index of a loop stays
\* within the moves of its node; a move is undone only when one has been
\* applied; control is always at a place the code goes on from; and every
\* step moves the search forward in the order in which it walks the tree, a
\* finite order, so that no run goes on for ever.
C8_Terminates == []C8_Safe /\ [][C8_Forward]_vars

C8_Witness ==
    /\ pc = "done"
    /\ prog # "S"
    /\ depth = MaxDepth
    /\ current_depth > MaxDepth
    /\ is_game_over(input)
    /\ legal_moves(input) # <<>>

\* The mate score of a program with the sign of the claim, and the states in
\* which ret holds the value of a search of the current board.
MateScore(p) == IF p = "S" THEN PosInf ELSE MATE
MateValue(p, b) == IF b.turn # MaximizingColor(p) THEN MateScore(p) ELSE -MateScore(p)
LeafReturned ==
    \/ RootReturned
    \/ pc = "root_called" /\ frames = <<>>
    \/ frames # <<>> /\ Top.at = "called"

\* C9: on a checkmate evaluate_board returns the mate score, positive when
\* the side that has mated (the side not to move) is the colour the program
\* maximizes for, negative when it is the other colour; and this is the
\* value the search returns for the board.
C9_MateSignFavoursMatingSide ==
    is_checkmate(board) =>
        /\ Evaluate(prog, board) = MateValue(prog, board)
        /\ LeafReturned => ret.eval = MateValue(prog, board)

C9_Witness ==
    /\ is_checkmate(board)
    /\ frames # <<>>
    /\ Top.at = "called"
    /\ board.turn = MaximizingColor(prog)
    /\ ret.eval = -MATE

\* A board that is drawn: not a checkmate, and a stalemate, insufficient
\* material or a draw that can be claimed.
IsDraw(b) ==
    /\ ~is_checkmate(b)
    /\ is_stalemate(b) \/ is_insufficient_material(b) \/ can_claim_draw(b)

\* C10: on a stalemate, on a board with insufficient material and on a board
\* where a draw can be claimed, evaluate_board returns 0.
C10_DrawScoresZero == IsDraw(board) => Evaluate(prog, board) = 0

\* C11: on every board that is not a checkmate the score evaluate_board
\* returns is strictly smaller in absolute value than the mate score of the
\* program, so that no heuristic or missing-piece score is a mate score.
C11_HeuristicBelowMate ==
    ~is_checkmate(board) => Abs(Evaluate(prog, board)) < MateScore(prog)

\* The board with the colours of the pieces swapped, every square flipped
\* vertically and the other side to move.  Only Black's castling is part of
\* the boards, so the mirror is taken of boards without the castling right.
flip(s) == IF s = NoSquare THEN NoSquare ELSE square(square_file(s), 7 - square_rank(s))
mirror(b) ==
    [b EXCEPT !.wk = flip(b.bk), !.bk = flip(b.wk), !.rk = flip(b.rk),
              !.rc = ~b.rc, !.turn = ~b.turn]

\* C12: evaluate_board (lines 90-138) of the mirrored board is the negation
\* of evaluate_board of the board.
C12_MirrorNegates ==
    (prog = "P1" /\ ~board.castle) =>
        evaluate_board(mirror(board)) = -evaluate_board(board)

\* The minimax value of a board at a depth: the best of the values of the
\* boards its moves lead to.  No order of the moves enters it.
SetMax(S) == CHOOSE x \in S : \A y \in S : y <= x
SetMin(S) == CHOOSE x \in S : \A y \in S : x <= y
RECURSIVE MinimaxValue(_, _, _, _)
MinimaxValue(p, b, d, maximizing_player) ==
    IF d = 0 \/ is_game_over(b) THEN Evaluate(p, b)
    ELSE LET lm == legal_moves(b)
             vals == {MinimaxValue(p, push(b, lm[i]), d - 1, ~maximizing_player) :
                         i \in 1 .. Len(lm)}
         IN IF maximizing_player THEN SetMax(vals) ELSE SetMin(vals)

\* Other orders of a node's moves: the order of generation, and the sorted
\* order of the other side (ascending where the code sorts descending).
Orders == {"generated", "opposite"}
MovesIn(order, p, b, maximizing_player) ==
    IF order = "generated" THEN legal_moves(b)
    ELSE OrderedMoves(p, b, ~maximizing_player)

\* The search of lines 164-198 with the moves of every node in another order:
\* the same window, the same updates and the same cutoff.
RECURSIVE Reordered(_, _, _, _, _)
RECURSIVE ReorderedLoop(_, _, _, _)
ReorderedLoop(p, d, order, st) ==
    IF st.i > Len(st.moves) \/ Cutoff(st.alpha, st.beta) THEN st.best
    ELSE LET eval == Reordered(p, push(st.b, st.moves[st.i]), d - 1, order,
                               [alpha |-> st.alpha, beta |-> st.beta,
                                maximizing_player |-> ~st.maximizing_player])
         IN ReorderedLoop(p, d, order,
               [st EXCEPT !.i = @ + 1,
                          !.best = IF Improves(st.maximizing_player, eval, @) THEN eval ELSE @,
                          !.alpha = NewAlpha(st.maximizing_player, @, eval),
                          !.beta = NewBeta(st.maximizing_player, @, eval)])
Reordered(p, b, d, order, w) ==
    IF d = 0 \/ is_game_over(b) THEN Evaluate(p, b)
    ELSE ReorderedLoop(p, d, order,
            [b |-> b, moves |-> MovesIn(order, p, b, w.maximizing_player), i |-> 1,
             alpha |-> w.alpha, beta |-> w.beta,
             maximizing_player |-> w.maximizing_player,
             best |-> IF w.maximizing_player THEN NegInf ELSE PosInf])

RootFlag == board.turn = MaximizingColor(prog)

\* C13: the value minimax returns at the root, called with the full window,
\* does not depend on the order in which the moves of the nodes are
\* examined: it is the minimax value of the board, the search run with the
\* moves in another order returns it too, and the move returned is one of
\* the moves that reach it.
C13_ValueIndependentOfOrder ==
    (RootReturned /\ prog # "S") =>
        /\ ret.eval = MinimaxValue(prog, board, RootDepth, RootFlag)
        /\ \A order \in Orders :
              Reordered(prog, board, RootDepth, order,
                        [alpha |-> NegInf, beta |-> PosInf,
                         maximizing_player |-> RootFlag]) = ret.eval
        /\ ret.move # NoMove =>
              MinimaxValue(prog, push(board, ret.move), RootDepth - 1, ~RootFlag) = ret.eval

C13_Witness ==
    /\ RootReturned
    /\ prog # "S"
    /\ RootDepth = MaxDepth
    /\ ret.move # NoMove
    /\ OrderedMoves(prog, board, RootFlag) # legal_moves(board)
    /\ OrderedMoves(prog, board, RootFlag)[1] # OrderedMoves(prog, board, ~RootFlag)[1]
    /\ ret.eval = MinimaxValue(prog, board, RootDepth, RootFlag)

\* ChessEndgameSolver.minimax without its table: the search of lines 415-443
\* alone, the moves in the order of generation.
SearchWithoutTable(b, d, alpha, beta, maximizing_player) ==
    Reordered("S", b, d, "generated",
              [alpha |-> alpha, beta |-> beta, maximizing_player |-> maximizing_player])

\* find_best_move (lines 445-465) over the search without table: the first
\* root move whose value is strictly better than those before it.
MoveWithoutTable(b, d) ==
    LET lm == legal_moves(b)
        vals == Strict([i \in 1 .. Len(lm) |->
                    LET after == push(b, lm[i])
                    IN SearchWithoutTable(after, d - 1, NegInf, PosInf,
                                          after.turn = BLACK)], Len(lm))
        start == IF b.turn = WHITE THEN NegInf ELSE PosInf
        better(x, y) == IF b.turn = WHITE THEN x > y ELSE x < y
        best == {i \in 1 .. Len(lm) :
                    /\ better(vals[i], start)
                    /\ \A j \in 1 .. Len(lm) : ~better(vals[j], vals[i])
                    /\ \A j \in 1 .. i - 1 : vals[j] # vals[i]}
    IN IF best = {} THEN NoMove ELSE lm[CHOOSE i \in best : TRUE]

\* C14: the table changes nothing: the value minimax returns to
\* find_best_move for a root move is the value of the same search without
\* table, and the move find_best_move returns is the move it returns without
\* table.
C14_TableKeepsResult ==
    /\ (prog = "S" /\ pc = "root_called" /\ frames = <<>>) =>
          ret.eval = SearchWithoutTable(board, depth - 1, NegInf, PosInf,
                                        board.turn = BLACK)
    /\ (prog = "S" /\ pc = "done") => result = MoveWithoutTable(input, depth)

\* The entry of the table for the board of the running activation, if any.
Stored == Top.board_fen \in DOMAIN transposition_table
Entry == transposition_table[Top.board_fen]
\* An activation of the solver's minimax returns at this step.
SolverReturns == prog = "S" /\ frames # <<>> /\ frames' = DropTop
\* It returns from the table only an entry at least as deep as the depth
\* asked for, and unchanged; any other return has searched the node, or
\* evaluated it, and leaves its value and depth in the table.
C15_Lookup ==
    SolverReturns =>
        /\ Top.board_fen = fen(board)
        /\ IF Top.at = "entry" /\ transposition_table' = transposition_table
           THEN /\ Stored
                /\ Entry.depth >= Top.depth
                /\ ret'.eval = Entry.value
           ELSE /\ ~(Stored /\ Entry.depth >= Top.depth /\ Top.at = "entry")
                /\ Top.at = "entry" => Top.depth = 0 \/ is_game_over(board)
                /\ transposition_table'[Top.board_fen] =
                      [value |-> ret'.eval, depth |-> Top.depth]
\* A node whose entry is shallower than the depth asked for is searched, or,
\* when the game is over there, evaluated again.
C15_ShallowIgnored ==
    (prog = "S" /\ frames # <<>> /\ Top.at = "entry"
        /\ Stored /\ Entry.depth < Top.depth /\ frames' # frames) =>
            IF Len(frames') < Len(frames)
            THEN /\ is_game_over(board)
                 /\ ret'.eval = evaluate_board_S(board)
            ELSE ret' = ret

\* C15: the solver's minimax returns a value of the table in place of a
\* search only when the entry is at least as deep as the depth asked for; a
\* shallower entry is ignored, the node is computed again and the entry is
\* overwritten.
C15_HitOnlyIfDeepEnough == [][C15_Lookup /\ C15_ShallowIgnored]_vars

C15_Witness ==
    /\ prog = "S"
    /\ frames # <<>>
    /\ Top.at = "loop"
    /\ Top.i > Len(Top.legal_moves)
    /\ Stored
    /\ Entry.depth < Top.depth
    /\ Entry.value # Top.best_eval

\* C16: when find_best_move starts, the table is empty.
C16_TableFreshPerDecision ==
    (prog = "S" /\ pc = "root" /\ scan = 1 /\ frames = <<>>) =>
        transposition_table = <<>>

\* The position run() sets up (line 575): White Ke1 and Ra1, Black Ke8, White
\* to move; and the rook moves of a board that leave the other side
\* stalemated.
StartPosition == B(4, 60, 0, WHITE, WHITE, FALSE)
StalemateInducing(b) ==
    {m \in {legal_moves(b)[i] : i \in 1 .. Len(legal_moves(b))} :
        m.from_square = b.rk /\ is_stalemate(push(b, m))}

Applied == Len(board.stack) - Len(input.stack)
RecursionDepth == IF frames = <<>> THEN 0 ELSE Len(frames) - 1
Beside ==
    IF pc = "scanned" THEN 1
    ELSE IF frames # <<>> /\ Top.at \in {"probe", "called"} THEN 1
    ELSE 0
C18_Balance ==
    prog # "S" =>
        /\ Applied = RecursionDepth + Beside
        /\ \A k \in 1 .. Len(frames) - 1 : frames[k].at = "called"
        /\ (frames # <<>> /\ Top.at = "break") => board = Top.called_on
        /\ pc = "done" => Applied = 0
\* A move is undone by the activation that applied it, and an activation
\* returns with the board it was called on: after the loop, after a cutoff
\* and at the fast return of the scan.
C18_Matched ==
    prog # "S" =>
        /\ Len(frames') < Len(frames) => board = Top.called_on /\ board' = board
        /\ Len(board'.stack) < Len(board.stack) =>
              /\ Len(frames') = Len(frames)
              /\ board' = pop(board)
              /\ IF frames = <<>> THEN pc = "scanned" /\ pc' \in {"scan", "done"}
                 ELSE /\ Top.at \in {"probe", "called"}
                      /\ board' = Top.called_on
        /\ (pc' = "done" /\ pc # "done") => board' = input

\* C18: during a call of minimax or get_ai_move the number of moves applied
\* and not yet undone is the recursion depth of the search, plus one while
\* an evaluate_move probe, the root scan or the undoing of a returned call is
\* under way; every move is undone by the activation that applied it before
\* that activation returns, also after a cutoff and at the fast return.
C18_PushPopBalanced == []C18_Balance /\ [][C18_Matched]_vars

C18_Witness ==
    /\ prog = "P1"
    /\ pc = "searching"
    /\ Len(frames) = MaxDepth
    /\ Top.at = "break"
    /\ Top.i < Len(Top.legal_moves)
    /\ Applied = MaxDepth - 1

\* The step of lines 178-184 and 191-197: an activation of minimax takes the
\* value its recursive call has returned.
TakesValue ==
    /\ prog # "S"
    /\ frames # <<>>
    /\ Top.at = "called"
    /\ Len(frames') = Len(frames)
    /\ frames' # frames
\* The best value and the best move change only when the value is strictly
\* better, and then to this value and this move; a value equal to the best
\* leaves the move found earlier in the list.
C19_Update ==
    TakesValue =>
        LET f == Top
            g == frames'[Len(frames)]
            strictly == IF f.maximizing_player THEN ret.eval > f.best_eval
                        ELSE ret.eval < f.best_eval
        IN /\ strictly => g.best_eval = ret.eval /\ g.best_move = f.legal_moves[f.i]
           /\ ~strictly => g.best_eval = f.best_eval /\ g.best_move = f.best_move
           /\ ret.eval = f.best_eval =>
                 /\ g.best_move = f.best_move
                 /\ \E j \in 1 .. f.i - 1 : f.legal_moves[j] = g.best_move
\* What minimax returns from its loop is the best value and the best move.
C19_Returned ==
    (prog # "S" /\ frames # <<>> /\ Len(frames') < Len(frames)
        /\ Top.at \in {"loop", "break"}) =>
            ret' = [eval |-> Top.best_eval, move |-> Top.best_move]

\* C19: minimax replaces the best value and the best move only on a strict
\* improvement, so that of several moves with the same best value the one
\* that comes first in the ordered list is returned.
C19_StrictImprovement == [][C19_Update /\ C19_Returned]_vars

C19_Witness ==
    /\ prog # "S"
    /\ frames # <<>>
    /\ Top.at = "called"
    /\ Top.best_move # NoMove
    /\ ret.eval = Top.best_eval
    /\ Len(frames) = 1

\* The ordering score evaluate_move gives a move of the node of the running
\* activation, and the moves of the node that mate at once.
OrderingScore(m) == Probe(prog, push(Top.called_on, m), m)
Sorted == prog # "S" /\ frames # <<>> /\ Top.at \in {"loop", "called", "break"}
JustSorted == Sorted /\ Top.at = "loop" /\ Top.i = 1
\* The list the loop starts with holds the legal moves of the node, by
\* non-increasing score at a maximizing node and by non-decreasing score at a
\* minimizing one; a mating move scores strictly more than a move that does
\* not mate, and comes before it at a maximizing node.
C20_Order ==
    JustSorted =>
        LET ms == Top.legal_moves
            n == Len(ms)
            score == Strict([j \in 1 .. n |-> OrderingScore(ms[j])], n)
            mates == Strict([j \in 1 .. n |-> is_checkmate(push(Top.called_on, ms[j]))], n)
        IN /\ {ms[j] : j \in 1 .. n} =
                 {legal_moves(Top.called_on)[j] : j \in 1 .. Len(legal_moves(Top.called_on))}
           /\ n = Len(legal_moves(Top.called_on))
           /\ \A j \in 1 .. n - 1 :
                 IF Top.maximizing_player THEN score[j] >= score[j + 1]
                 ELSE score[j] =< score[j + 1]
           /\ \A j, k \in 1 .. n :
                 (mates[j] /\ ~mates[k]) =>
                     /\ score[j] > score[k]
                     /\ Top.maximizing_player => j < k
\* The loop takes the moves of this list one after the other.
C20_InTurn ==
    (Sorted /\ Sorted' /\ Len(frames') = Len(frames)) =>
        /\ frames'[Len(frames)].legal_moves = Top.legal_moves
        /\ frames'[Len(frames)].i \in {Top.i, Top.i + 1}
        /\ Top.at = "called" => board = push(Top.called_on, Top.legal_moves[Top.i])

\* C20: minimax examines the moves of a node in the order of their
\* evaluate_move score, highest first at a maximizing node and lowest first
\* at a minimizing node; a move that mates at once scores strictly more than
\* any move that does not, so that a maximizing node examines its mating
\* moves before the others.
C20_MovesExaminedInScoreOrder == []C20_Order /\ [][C20_InTurn]_vars

C20_Witness ==
    /\ Sorted
    /\ Top.at = "loop"
    /\ Top.i = 1
    /\ Top.maximizing_player
    /\ is_checkmate(push(Top.called_on, Top.legal_moves[1]))
    /\ ~is_checkmate(push(Top.called_on, legal_moves(Top.called_on)[1]))

\* ------------------------------------------------------------------ C21
\* evaluate_move has applied the move it is asked about (lines 142, 789).
Probing == prog # "S" /\ frames # <<>> /\ Top.at = "probe"
ProbedMove == board.stack[Len(board.stack)].move

\* The move takes a piece of the other side in the position it is played in.
CapturesEnemy(b, m) == m.to_square \in OwnSquares(b, ~b.turn)

\* What evaluate_move adds after its chain of three tests (lines 151-159 and
\* 803-808), in halves like ProbeScore.
OtherTerms(p, after, m) ==
    LET center_distance2 == Max2(Abs(7 - 2 * square_file(m.to_square)),
                                 Abs(7 - 2 * square_rank(m.to_square)))
        is_king == m.to_square \in {after.wk, after.bk}
    IN IF SameText(p)
       THEN 2 * (IF is_castling(after, m) THEN 40 ELSE 0)
            + (IF after.turn = BLACK /\ is_king THEN 30 - center_distance2 * 3 ELSE 0)
       ELSE IF after.turn = WHITE /\ is_king THEN 20 - center_distance2 ELSE 0

\* C21: for a move that gives neither checkmate nor check, evaluate_move adds
\* the capture term (30, here 60 halves) exactly when the move takes an enemy
\* piece in the position it is played in; a move that takes nothing gets no
\* capture term.
C21_CaptureTermOnlyForCaptures ==
    (Probing /\ ~is_checkmate(board) /\ ~is_check(board)) =>
        Probe(prog, board, ProbedMove) =
            OtherTerms(prog, board, ProbedMove)
            + (IF CapturesEnemy(pop(board), ProbedMove) THEN 60 ELSE 0)

\* ------------------------------------------------------------------ C22
\* The same placement with the other side to move.
OtherToMove(b) == [b EXCEPT !.turn = ~b.turn]

\* Neither side to move is in check and the game is over in neither position.
QuietBothWays(b) ==
    /\ ~is_check(b) /\ ~is_check(OtherToMove(b))
    /\ ~is_game_over(b) /\ ~is_game_over(OtherToMove(b))

\* C22: evaluate_board gives two positions with the same placement, neither
\* terminal nor in check, that differ only in the side to move the same
\* score: the side to move does not change the sign of a leaf's score.
C22_ScoreIndependentOfSideToMove ==
    (prog # "S" /\ QuietBothWays(board)) =>
        Evaluate(prog, OtherToMove(board)) = Evaluate(prog, board)

\* ------------------------------------------------------------------ C23
\* The colour of the rook evaluate_board looks for (lines 102 and 701).
ExpectedRook(p) == IF SameText(p) THEN BLACK ELSE WHITE

\* evaluate_board reaches its test `if not rook` and returns 0 there (lines
\* 106-107 and 705-706).
MissingRookBranch(p, b) ==
    /\ ~is_checkmate(b)
    /\ ~is_stalemate(b)
    /\ Falsy(FindRook(b, ExpectedRook(p)))

\* C23: on a position that is neither checkmate nor stalemate, evaluate_board
\* takes its missing-rook branch and returns 0 if and only if no rook of the
\* expected colour is on the board; a rook on any square, a1 included, leads
\* to the weighted terms.
C23_MissingRookBranchIffNoRook ==
    (prog # "S" /\ ~is_checkmate(board) /\ ~is_stalemate(board)) =>
        /\ MissingRookBranch(prog, board) <=> ~HasRook(board, ExpectedRook(prog))
        /\ MissingRookBranch(prog, board) => Evaluate(prog, board) = 0

\* ------------------------------------------------------------------ C24
\* The loop waits for a click with the computer to move in a game not over.
ComputersTurn ==
    /\ pc = "idle"
    /\ board.turn = WHITE
    /\ ~is_game_over(board)

\* computer_move has pushed a move: the last move of the board is White's.
ComputerHasMoved ==
    /\ pc \in {"idle", "raised", "quit"}
    /\ board.stack # <<>>
    /\ board.turn = BLACK

\* C24: in the game loop started from the position of run, with clicks
\* delivered fairly, whenever it is the computer's turn and the game is not
\* over the computer eventually makes its move (unless the window is closed).
C24_ComputerEventuallyMoves ==
    (ComputersTurn /\ board = RunStart) ~> (ComputerHasMoved \/ pc = "quit")
====
